---- MODULE Spec2Model ----
(***************************************************************************)
(* PromptTags (src/main.py): a request hook that, before every LLM         *)
(* request, removes the tag blocks it injected on earlier turns from the   *)
(* request (system_prompt, prompt, contexts) and injects the current tags  *)
(* again.                                                                  *)
(*                                                                         *)
(* A Python str is a sequence of one-character strings.  A value that may  *)
(* be a str, None or something else is a record [k, v]: k = "str" with the *)
(* text v, k = "none", or k = "other" (a truthy value that is not a str).  *)
(***************************************************************************)
EXTENDS Integers, Sequences, FiniteSets, TLC

VARIABLES config, tags, req, pre, mid, outcome, phase, turn, sel, txt, out1, out2

vars == <<config, tags, req, pre, mid, outcome, phase, turn, sel, txt, out1, out2>>

\* --------------------------------------------------------------------------
\* Characters and strings
\* --------------------------------------------------------------------------

NL == "\n"
SP == " "
BS == "\\"

\* What str.strip() with no argument removes (of the characters modelled).
Whitespace == {NL, SP}

\* [A-Za-z0-9_-], over the characters modelled.
NameChars == {"a", "b", "c", "x", "y", "_", "-"}

\* Concatenation of a sequence of strings.
RECURSIVE Concat(_)
Concat(ss) == IF ss = <<>> THEN <<>> ELSE Head(ss) \o Concat(Tail(ss))

\* sep.join(ss)
RECURSIVE Join(_, _)
Join(sep, ss) ==
  IF ss = <<>> THEN <<>>
  ELSE IF Len(ss) = 1 THEN ss[1]
  ELSE ss[1] \o sep \o Join(sep, Tail(ss))

\* sub occurs in s at index i (1-based).
OccursAt(s, sub, i) ==
  /\ i >= 1
  /\ i + Len(sub) - 1 <= Len(s)
  /\ SubSeq(s, i, i + Len(sub) - 1) = sub

\* Python: sub in s
Contains(s, sub) == \E i \in 1..(Len(s) + 1) : OccursAt(s, sub, i)

\* s.find(sub, from), 1-based; 0 when there is none.
Find(s, sub, from) ==
  LET hits == {i \in from..(Len(s) + 1) : OccursAt(s, sub, i)}
  IN IF hits = {} THEN 0 ELSE CHOOSE i \in hits : \A j \in hits : i <= j

\* Number of (possibly overlapping) occurrences of sub in s.
Count(s, sub) == Cardinality({i \in 1..(Len(s) + 1) : OccursAt(s, sub, i)})

\* s.replace(old, new), left to right, non-overlapping.
RECURSIVE Replace(_, _, _)
Replace(s, old, new) ==
  LET i == Find(s, old, 1)
  IN IF i = 0 THEN s
     ELSE SubSeq(s, 1, i - 1) \o new
          \o Replace(SubSeq(s, i + Len(old), Len(s)), old, new)

\* s.strip()
RECURSIVE LStrip(_)
LStrip(s) ==
  IF s # <<>> /\ Head(s) \in Whitespace THEN LStrip(Tail(s)) ELSE s

RECURSIVE RStrip(_)
RStrip(s) ==
  IF s # <<>> /\ s[Len(s)] \in Whitespace
  THEN RStrip(SubSeq(s, 1, Len(s) - 1)) ELSE s

Strip(s) == LStrip(RStrip(s))

\* Length of the run of newlines that starts at index i of s.
RECURSIVE NewlineRun(_, _)
NewlineRun(s, i) ==
  IF i <= Len(s) /\ s[i] = NL THEN 1 + NewlineRun(s, i + 1) ELSE 0

\* re.sub(r"\n{3,}", "\n\n", s): the pattern is greedy, so a whole run of
\* three or more newlines is one match.
RECURSIVE CollapseNewlines(_)
CollapseNewlines(s) ==
  IF s = <<>> THEN <<>>
  ELSE LET n == NewlineRun(s, 1)
       IN IF n >= 3 THEN <<NL, NL>> \o CollapseNewlines(SubSeq(s, n + 1, Len(s)))
          ELSE <<Head(s)>> \o CollapseNewlines(Tail(s))

\* --------------------------------------------------------------------------
\* Optional values
\* --------------------------------------------------------------------------

None == [k |-> "none", v |-> <<>>]
Other == [k |-> "other", v |-> <<>>]
Str(s) == [k |-> "str", v |-> s]

\* Python truthiness of such a value.
Truthy(val) == val.k = "other" \/ (val.k = "str" /\ val.v # <<>>)

\* (val or ""), as the operand of a str concatenation.
OrEmpty(val) == IF Truthy(val) THEN val ELSE Str(<<>>)

\* --------------------------------------------------------------------------
\* Configuration loading
\* --------------------------------------------------------------------------

MAX_TAGS == 5

\* "tag_1" .. "tag_5", by number.
TAG_SLOT_KEYS == [i \in 1..MAX_TAGS |-> i]

\* TAG_NAME_PATTERN.match(name): ^[A-Za-z0-9_-]+$
TAG_NAME_PATTERN(name) ==
  /\ name # <<>>
  /\ \A i \in 1..Len(name) : name[i] \in NameChars

\* The three recognised values of injection_position.  A position is a
\* sequence whose elements are blanks and one word, so that strip() applies.
Positions == {"user_message_before", "user_message_after", "system_prompt"}

\* A configuration maps keys (numbers; those above MAX_TAGS stand for keys
\* other than tag_1..tag_5) to slot values.  A slot value that is a dict has
\* the four settings; a missing setting has the default slot.get() gives.
\* The recognised position of a stripped setting; any other falls back.
Fallback(stripped) ==
  IF Len(stripped) = 1 /\ stripped[1] \in Positions
  THEN stripped[1] ELSE "user_message_after"

\* A load that drops an unrecognised position instead of falling back.
ValidatedStrict(slot, tag_name, content, stripped) ==
  /\ slot.isdict
  /\ slot.enabled
  /\ tag_name # <<>>
  /\ TAG_NAME_PATTERN(tag_name)
  /\ content # <<>>
  /\ Len(stripped) = 1 /\ stripped[1] \in Positions

\* Lines 84-120: the checks a slot passes to be loaded.
Validated(slot, tag_name, content, stripped) ==
  /\ slot.isdict
  /\ slot.enabled
  /\ tag_name # <<>>
  /\ TAG_NAME_PATTERN(tag_name)
  /\ content # <<>>

\* Lines 133-142: the definition appended to _tags.
TagOf(slot_key, tag_name, content, position) ==
  [slot     |-> slot_key,
   tag_name |-> tag_name,
   content  |-> content,
   position |-> position,
   header   |-> <<"<">> \o tag_name \o <<">">>,
   footer   |-> <<"<", "/">> \o tag_name \o <<">">>]

\* Lines 83-142: one slot, given its key: the settings read and normalised,
\* then no definition or one.
LoadSlot(slot_key, slot, tag_name, content, stripped) ==
  IF Validated(slot, tag_name, content, stripped)
  THEN <<TagOf(slot_key, tag_name, content, Fallback(stripped))>>
  ELSE <<>>

\* _load_tags, slots TAG_SLOT_KEYS[n] onwards, in order.
RECURSIVE LoadFrom(_, _)
LoadFrom(cfg, n) ==
  IF n > Len(TAG_SLOT_KEYS) THEN <<>>
  ELSE LoadSlot(TAG_SLOT_KEYS[n],
                cfg[TAG_SLOT_KEYS[n]],
                Strip(cfg[TAG_SLOT_KEYS[n]].tag_name),
                Strip(Replace(cfg[TAG_SLOT_KEYS[n]].content, <<BS, "n">>, <<NL>>)),
                Strip(cfg[TAG_SLOT_KEYS[n]].injection_position))
       \o LoadFrom(cfg, n + 1)

_load_tags(cfg) == LoadFrom(cfg, 1)

\* --------------------------------------------------------------------------
\* Formatting and cleanup of strings
\* --------------------------------------------------------------------------

_format_tag(tag) ==
  tag.header \o <<NL>> \o tag.content \o <<NL>> \o tag.footer \o <<NL>>

\* re.compile(escape(header) + ".*?" + escape(footer), DOTALL): the pattern
\* is the pair of literals; matching is in PatternSub.
_build_cleanup_pattern(tag) == [header |-> tag.header, footer |-> tag.footer]

\* pattern.sub("", text) from index pos on: the leftmost header that has a
\* footer after it, up to the first such footer, is removed; the search goes
\* on after the footer.
RECURSIVE PatternSub(_, _, _)
PatternSub(pattern, text, pos) ==
  LET h == Find(text, pattern.header, pos)
      f == IF h = 0 THEN 0
           ELSE Find(text, pattern.footer, h + Len(pattern.header))
  IN IF h = 0 \/ f = 0 THEN SubSeq(text, pos, Len(text))
     ELSE SubSeq(text, pos, h - 1)
          \o PatternSub(pattern, text, f + Len(pattern.footer))

_clean_string(text, pattern) ==
  Strip(CollapseNewlines(PatternSub(pattern, text, 1)))

\* header in text and footer in text
HasBoth(text, tag) == Contains(text, tag.header) /\ Contains(text, tag.footer)

\* --------------------------------------------------------------------------
\* Cleanup of a request
\*
\* A request is [system_prompt, prompt, contexts].  system_prompt and prompt
\* are optional values; contexts is [k, v]: k = "list" with the messages v,
\* k = "none", or k = "other" (truthy, not iterable).
\*
\* A message is [shape, id, text, parts]:
\*   "str"        a plain string, text
\*   "dict_str"   a dict whose content is the string text
\*   "dict_list"  a dict whose content is the list parts
\*   "dict_other" a dict whose content is neither a string nor a list
\*   "other"      neither a string nor a dict
\* id stands for what msg.copy() keeps of a dict (its other keys); for a plain
\* string it only names the entry.  A part is [kind, pid, text]:
\*   "text"        a dict of type "text" whose text is a string
\*   "text_nonstr" a dict of type "text" whose text is not a string
\*   "nontext"     a dict of another type
\*   "nondict"     not a dict
\* --------------------------------------------------------------------------

\* Lines 200-203 and 209-212: the field becomes the cleaned text; it counts
\* when that differs.
FieldCleaned(val, cleaned) ==
  [val |-> Str(cleaned), removed |-> IF cleaned # val.v THEN 1 ELSE 0]

\* Lines 196-212: system_prompt and prompt.
CleanField(val, tag, pattern) ==
  IF Truthy(val) /\ val.k = "str" /\ HasBoth(val.v, tag)
  THEN FieldCleaned(val, _clean_string(val.v, pattern))
  ELSE [val |-> val, removed |-> 0]

\* Lines 267-277: a text part that holds both delimiters, given its cleaned
\* text: dropped, replaced by a copy, or kept.
PartCleaned(part, cleaned_text) ==
  IF cleaned_text = <<>>
  THEN [parts |-> <<>>, has_changes |-> TRUE, removed |-> 0]
  ELSE IF cleaned_text # part.text
  THEN [parts |-> <<[part EXCEPT !.text = cleaned_text]>>,
        has_changes |-> TRUE, removed |-> 1]
  ELSE [parts |-> <<part>>, has_changes |-> FALSE, removed |-> 0]

\* Lines 256-277: one part of a list content.
CleanPart(part, tag, pattern) ==
  IF part.kind = "text" /\ HasBoth(part.text, tag)
  THEN PartCleaned(part, _clean_string(part.text, pattern))
  ELSE [parts |-> <<part>>, has_changes |-> FALSE, removed |-> 0]

\* cleaned_parts, has_changes and removed after one more part.
PartsJoined(one, rest) ==
  [parts       |-> one.parts \o rest.parts,
   has_changes |-> one.has_changes \/ rest.has_changes,
   removed     |-> one.removed + rest.removed]

\* Lines 253-277: the loop over the parts.
RECURSIVE CleanParts(_, _, _)
CleanParts(content, tag, pattern) ==
  IF content = <<>>
  THEN [parts |-> <<>>, has_changes |-> FALSE, removed |-> 0]
  ELSE PartsJoined(CleanPart(Head(content), tag, pattern),
                   CleanParts(Tail(content), tag, pattern))

\* A cleanup that keeps the entry it emptied.
TextCleanedKeepEmpty(msg, cleaned) ==
  IF cleaned # msg.text
  THEN [msgs |-> <<[msg EXCEPT !.text = cleaned]>>, removed |-> 1]
  ELSE [msgs |-> <<msg>>, removed |-> 0]

\* Lines 222-230 and 239-249: a string, or a dict with string content, that
\* holds both delimiters, given its cleaned text.  msgs is what is appended
\* to filtered_contexts: nothing, a changed copy, or the message.
TextCleaned(msg, cleaned) ==
  IF cleaned = <<>>
  THEN [msgs |-> <<>>, removed |-> 1]
  ELSE IF cleaned # msg.text
  THEN [msgs |-> <<[msg EXCEPT !.text = cleaned]>>, removed |-> 1]
  ELSE [msgs |-> <<msg>>, removed |-> 0]

\* Lines 279-287: a dict with list content, given its cleaned parts c.
ListCleaned(msg, c) ==
  IF c.parts = <<>>
  THEN [msgs |-> <<>>, removed |-> c.removed + 1]
  ELSE IF c.has_changes
  THEN [msgs |-> <<[msg EXCEPT !.parts = c.parts]>>, removed |-> c.removed]
  ELSE [msgs |-> <<msg>>, removed |-> c.removed]

\* Lines 218-290: one message of contexts.
CleanMessage(msg, tag, pattern) ==
  IF msg.shape \in {"str", "dict_str"}
  THEN IF HasBoth(msg.text, tag)
       THEN TextCleaned(msg, _clean_string(msg.text, pattern))
       ELSE [msgs |-> <<msg>>, removed |-> 0]
  ELSE IF msg.shape = "dict_list"
  THEN ListCleaned(msg, CleanParts(msg.parts, tag, pattern))
  ELSE [msgs |-> <<msg>>, removed |-> 0]

\* filtered_contexts and removed after one more message.
MessagesJoined(one, rest) ==
  [msgs |-> one.msgs \o rest.msgs, removed |-> one.removed + rest.removed]

\* Lines 216-290: the loop over contexts.
RECURSIVE FilterContexts(_, _, _)
FilterContexts(contexts, tag, pattern) ==
  IF contexts = <<>> THEN [msgs |-> <<>>, removed |-> 0]
  ELSE MessagesJoined(CleanMessage(Head(contexts), tag, pattern),
                      FilterContexts(Tail(contexts), tag, pattern))

\* Lines 215-292: contexts is visited when it is truthy.
CleanContexts(contexts, tag, pattern) ==
  IF contexts.k = "list" /\ contexts.v # <<>>
  THEN FilterContexts(contexts.v, tag, pattern)
  ELSE [msgs |-> contexts.v, removed |-> 0]

\* The request, the count and the exception after the three parts of
\* _remove_tags_from_context.  Iterating a contexts that is truthy and not
\* iterable raises TypeError, after system_prompt and prompt were cleaned and
\* before contexts is assigned.
Removed(r, sys, usr, ctx) ==
  [req     |-> [system_prompt |-> sys.val,
                prompt        |-> usr.val,
                contexts      |-> [r.contexts EXCEPT !.v = ctx.msgs]],
   removed |-> sys.removed + usr.removed + ctx.removed,
   raised  |-> r.contexts.k = "other"]

_remove_tags_from_context(r, tag) ==
  Removed(r,
          CleanField(r.system_prompt, tag, _build_cleanup_pattern(tag)),
          CleanField(r.prompt, tag, _build_cleanup_pattern(tag)),
          CleanContexts(r.contexts, tag, _build_cleanup_pattern(tag)))

\* --------------------------------------------------------------------------
\* The request hook
\*
\* The body of the try block is a chain of steps over a run
\* [req, mid, removed, outcome, raised]: mid is the request as the cleanup
\* phase left it, outcome names the step that raised ("running" while none
\* has), and a step after one that raised does nothing.
\* --------------------------------------------------------------------------

\* Lines 321-322, given what _remove_tags_from_context returned.
Accumulate(run, one) ==
  [run EXCEPT !.req = one.req, !.mid = one.req,
              !.removed = run.removed + one.removed,
              !.raised = one.raised,
              !.outcome = IF one.raised THEN "failed_cleanup" ELSE run.outcome]

\* Lines 320-322: _remove_tags_from_context for every tag, in order; an
\* exception ends the loop.
RECURSIVE CleanAll(_, _)
CleanAll(run, ts) ==
  IF ts = <<>> \/ run.raised THEN run
  ELSE CleanAll(Accumulate(run, _remove_tags_from_context(run.req, Head(ts))),
                Tail(ts))

\* Lines 333-341: by_position[position], the formatted tags of that position
\* in the order of _tags.
RECURSIVE by_position(_, _)
by_position(ts, position) ==
  IF ts = <<>> THEN <<>>
  ELSE (IF Head(ts).position = position THEN <<_format_tag(Head(ts))>> ELSE <<>>)
       \o by_position(Tail(ts), position)

\* A join with a single newline.
BlockSingleNewline(formatted) == Join(<<NL>>, formatted)

\* "\n\n".join(formatted)
Block(formatted) == Join(<<NL, NL>>, formatted)

\* Lines 344-346: block + "\n\n" + (req.prompt or ""); a str and a value
\* that is not a str raise TypeError.
PrependPrompt(run, formatted) ==
  IF run.raised \/ formatted = <<>> THEN run
  ELSE IF OrEmpty(run.req.prompt).k # "str"
  THEN [run EXCEPT !.raised = TRUE, !.outcome = "failed_before"]
  ELSE [run EXCEPT !.req.prompt =
          Str(Block(formatted) \o <<NL, NL>> \o OrEmpty(run.req.prompt).v)]

\* Lines 354-356: (req.prompt or "") + "\n\n" + block
AppendPrompt(run, formatted) ==
  IF run.raised \/ formatted = <<>> THEN run
  ELSE IF OrEmpty(run.req.prompt).k # "str"
  THEN [run EXCEPT !.raised = TRUE, !.outcome = "failed_after"]
  ELSE [run EXCEPT !.req.prompt =
          Str(OrEmpty(run.req.prompt).v \o <<NL, NL>> \o Block(formatted))]

\* Lines 364-368: (req.system_prompt or "") + "\n\n" + block
AppendSystem(run, formatted) ==
  IF run.raised \/ formatted = <<>> THEN run
  ELSE IF OrEmpty(run.req.system_prompt).k # "str"
  THEN [run EXCEPT !.raised = TRUE, !.outcome = "failed_system"]
  ELSE [run EXCEPT !.req.system_prompt =
          Str(OrEmpty(run.req.system_prompt).v \o <<NL, NL>> \o Block(formatted))]

\* Lines 330-373: the injection phase.
InjectPhase(run, ts) ==
  AppendSystem(
    AppendPrompt(
      PrependPrompt(run, by_position(ts, "user_message_before")),
      by_position(ts, "user_message_after")),
    by_position(ts, "system_prompt"))

\* The run at the start of the try block.
Start(r) ==
  [req |-> r, mid |-> r, removed |-> 0, outcome |-> "running", raised |-> FALSE]

\* Lines 315-373: the body of the try block.
TryBody(ts, r) == InjectPhase(CleanAll(Start(r), ts), ts)

\* Lines 375-379: except Exception catches what the body raised; nothing
\* reaches the host.
ExceptException(run) ==
  [req     |-> run.req,
   mid     |-> run.mid,
   outcome |-> IF run.raised THEN run.outcome ELSE "injected",
   raised  |-> FALSE]

\* A hook that undoes what the body did when the body raised.
handle_inject_tags_rollback(ts, r) ==
  IF ts = <<>>
  THEN [req |-> r, mid |-> r, outcome |-> "no_tags", raised |-> FALSE]
  ELSE IF TryBody(ts, r).raised
  THEN [ExceptException(TryBody(ts, r)) EXCEPT !.req = r]
  ELSE ExceptException(TryBody(ts, r))

\* handle_inject_tags(event, req) with self._tags = ts: the request
\* afterwards, the request as it was after the cleanup phase (mid), how the
\* body ended, and whether an exception reaches the host.
handle_inject_tags(ts, r) ==
  IF ts = <<>>
  THEN [req |-> r, mid |-> r, outcome |-> "no_tags", raised |-> FALSE]
  ELSE ExceptException(TryBody(ts, r))

\* --------------------------------------------------------------------------
\* Inputs
\* --------------------------------------------------------------------------

\* Reconcile cycles per conversation.
MaxTurns == 2

\* Configuration keys besides tag_1..tag_5.
ExtraKeys == 1

ConfigKeys == 1..(MAX_TAGS + ExtraKeys)

\* A slot dict with all four settings, enabled.
Slot(name, content, position) ==
  [isdict |-> TRUE, enabled |-> TRUE, tag_name |-> name, content |-> content,
   injection_position |-> position]

\* A slot that is missing from the configuration: config.get(key, {}) is an
\* empty dict, whose settings all have their defaults.
Missing ==
  [isdict |-> TRUE, enabled |-> FALSE, tag_name |-> <<>>, content |-> <<>>,
   injection_position |-> <<"user_message_after">>]

Before == <<"user_message_before">>
After == <<"user_message_after">>
System == <<"system_prompt">>

\* A configuration from the values of tag_1..tag_5; the other keys hold an
\* enabled, valid-looking tag.
Config(s1, s2, s3, s4, s5) ==
  [key \in ConfigKeys |->
     IF key = 1 THEN s1 ELSE IF key = 2 THEN s2 ELSE IF key = 3 THEN s3
     ELSE IF key = 4 THEN s4 ELSE IF key = 5 THEN s5
     ELSE Slot(<<"y">>, <<"z">>, After)]

\* The configurations of the conversations checked.
CycleConfigs ==
  { Config(Missing, Missing, Missing, Missing, Missing),
    Config(Slot(<<"a">>, <<"c">>, After), Missing, Missing, Missing, Missing),
    Config(Slot(<<"a">>, <<"c">>, Before), Missing, Missing, Missing, Missing),
    Config(Missing, Slot(<<"a">>, <<"c">>, System), Missing, Missing, Missing),
    Config(Slot(<<"a">>, <<"c">>, Before), Missing,
           Slot(<<"b">>, <<"d", NL, "e">>, After), Missing, Missing),
    Config(Slot(<<"a">>, <<"c">>, After), Slot(<<"b">>, <<"d">>, After),
           Missing, Missing, Slot(<<"x">>, <<"e">>, System)),
    Config(Slot(<<"a">>, <<"c">>, System), Slot(<<"b">>, <<"d">>, Before),
           Slot(<<"c">>, <<"e">>, System), Slot(<<"x">>, <<"f">>, Before),
           Slot(<<"-">>, <<"g">>, After)) }

EmptyRequest == [system_prompt |-> None, prompt |-> None,
                 contexts |-> [k |-> "list", v |-> <<>>]]

\* outcome tells how the last cycle on the request at hand ended; it is
\* "none" once the host has built the next request or the plugin has stopped.
NoOutcome == [at |-> "none", raised |-> FALSE]

\* What the user sends: plain text, nothing, text that holds the pieces of a
\* tag block around a complete one, or a prompt that is not a str.
UserPrompts ==
  { Str(<<"h", "i">>), None, Other,
    Str(<<"<", "a", "<", "a", ">", "x", "<", "/", "a", ">", ">", NL, "c", NL,
          "<", "/", "a", ">">>) }

\* Text another hook appends to what it stores in the history.
Appended == { <<>>, <<NL, "m">> }

\* The message the host stores a text as.
Stored(form, id, text) ==
  IF form = "part"
  THEN [shape |-> "dict_list", id |-> id, text |-> <<>>,
        parts |-> <<[kind |-> "text", pid |-> 1, text |-> text],
                    [kind |-> "nontext", pid |-> 2, text |-> <<>>]>>]
  ELSE [shape |-> form, id |-> id, text |-> text, parts |-> <<>>]

Forms == {"str", "dict_str", "part"}

\* --------------------------------------------------------------------------
\* The conversation: the host builds a request, the hook reconciles it
\* --------------------------------------------------------------------------

Init ==
  /\ config \in CycleConfigs
  /\ tags = _load_tags(config)
  /\ req = EmptyRequest
  /\ pre = EmptyRequest
  /\ mid = EmptyRequest
  /\ outcome = NoOutcome
  /\ phase = "idle"
  /\ turn = 0
  /\ sel = 0
  /\ txt = <<>>
  /\ out1 = <<>>
  /\ out2 = <<>>

\* The host builds the next request: the prompt of the request before, as
\* the hook left it, goes to the history in one of three forms, with or
\* without text appended; the system prompt is kept as the hook left it, set
\* anew (a str, or a value that is not a str), or moved to the history too.
HostRequest(p, form, extra, sysmode) ==
  /\ phase = "idle"
  /\ turn < MaxTurns
  /\ LET old    == req.contexts.v
         moved  == IF req.prompt.k = "str" /\ req.prompt.v # <<>>
                   THEN <<Stored(form, Len(old) + 1, req.prompt.v \o extra)>>
                   ELSE <<>>
         sysold == IF sysmode = "moved" /\ req.system_prompt.k = "str"
                   THEN <<Stored("dict_str", Len(old) + Len(moved) + 1,
                                 req.system_prompt.v)>>
                   ELSE <<>>
     IN req' = [system_prompt |->
                  IF sysmode = "kept" THEN req.system_prompt
                  ELSE IF sysmode = "other" THEN Other
                  ELSE Str(<<"s">>),
                prompt   |-> p,
                contexts |-> [k |-> "list", v |-> old \o moved \o sysold]]
  /\ phase' = "pending"
  /\ turn' = turn + 1
  /\ outcome' = NoOutcome
  /\ UNCHANGED <<config, tags, pre, mid, sel, txt, out1, out2>>

\* The host passes a request whose contexts is not a list.
HostBadContexts(p) ==
  /\ phase = "idle"
  /\ turn < MaxTurns
  /\ req' = [req EXCEPT !.prompt = p, !.contexts = [k |-> "other", v |-> <<>>]]
  /\ phase' = "pending"
  /\ turn' = MaxTurns
  /\ outcome' = NoOutcome
  /\ UNCHANGED <<config, tags, pre, mid, sel, txt, out1, out2>>

\* on_llm_request: handle_inject_tags runs on the pending request.
HandleInjectTags ==
  /\ phase = "pending"
  /\ \E res \in {handle_inject_tags(tags, req)} :
        /\ req' = res.req
        /\ mid' = res.mid
        /\ outcome' = [at |-> res.outcome, raised |-> res.raised]
  /\ pre' = req
  /\ phase' = "idle"
  /\ UNCHANGED <<config, tags, turn, sel, txt, out1, out2>>

\* terminate()
Terminate ==
  /\ phase = "idle"
  /\ tags # <<>>
  /\ tags' = <<>>
  /\ outcome' = NoOutcome
  /\ UNCHANGED <<config, req, pre, mid, phase, turn, sel, txt, out1, out2>>

Next ==
  \/ \E p \in UserPrompts, form \in Forms, extra \in Appended,
        sysmode \in {"kept", "fresh", "moved", "other"} :
       HostRequest(p, form, extra, sysmode)
  \/ \E p \in UserPrompts : HostBadContexts(p)
  \/ HandleInjectTags
  \/ Terminate

Spec == Init /\ [][Next]_vars

\* --------------------------------------------------------------------------
\* Properties of the conversation
\* --------------------------------------------------------------------------

\* The text of an optional value, "" when it is not a str.
TextOf(val) == IF val.k = "str" THEN val.v ELSE <<>>

\* Occurrences of block in the text parts of a list content.
RECURSIVE CountInParts(_, _)
CountInParts(parts, block) ==
  IF parts = <<>> THEN 0
  ELSE (IF Head(parts).kind = "text" THEN Count(Head(parts).text, block) ELSE 0)
       + CountInParts(Tail(parts), block)

\* Occurrences of block in the texts of the history.
RECURSIVE CountInContexts(_, _)
CountInContexts(msgs, block) ==
  IF msgs = <<>> THEN 0
  ELSE (IF Head(msgs).shape \in {"str", "dict_str"} THEN Count(Head(msgs).text, block)
        ELSE IF Head(msgs).shape = "dict_list" THEN CountInParts(Head(msgs).parts, block)
        ELSE 0)
       + CountInContexts(Tail(msgs), block)

\* Occurrences of block in the whole request.
CountInRequest(r, block) ==
  Count(TextOf(r.system_prompt), block) + Count(TextOf(r.prompt), block)
  + CountInContexts(r.contexts.v, block)

\* The rendered form of a tag, from its name and content.
Rendered(t) ==
  <<"<">> \o t.tag_name \o <<">", NL>> \o t.content
  \o <<NL, "<", "/">> \o t.tag_name \o <<">", NL>>

\* The rendered forms of a set of tags, in ascending slot order, with a
\* blank line between them.
RECURSIVE RenderedBlock(_)
RenderedBlock(S) ==
  IF S = {} THEN <<>>
  ELSE LET first == CHOOSE t \in S : \A u \in S : t.slot <= u.slot
       IN IF S = {first} THEN Rendered(first)
          ELSE Rendered(first) \o <<NL, NL>> \o RenderedBlock(S \ {first})

\* The active tags of an anchor.
Bucket(position) == {tags[i] : i \in {j \in 1..Len(tags) : tags[j].position = position}}

\* The field of the request a position is injected into.
AnchorField(r, position) ==
  IF position = "system_prompt" THEN TextOf(r.system_prompt) ELSE TextOf(r.prompt)

\* The rendered form of t lies in its anchor's field.
AtAnchor(r, t) == Contains(AnchorField(r, t.position), Rendered(t))

\* C1: after every reconcile cycle that injected, each active tag's rendered
\* block occurs exactly once in the whole request (system prompt, user prompt
\* and history), in the field of its anchor: no copy of an earlier turn or of
\* the incoming text survives.
C1_ExactlyOncePerTurn ==
  outcome.at = "injected" =>
    \A i \in 1..Len(tags) :
      /\ CountInRequest(req, Rendered(tags[i])) = 1
      /\ AtAnchor(req, tags[i])

\* What C6 says the user prompt is after the injection phase, from the user
\* prompt before it.
ComposedPrompt(u) ==
  (IF Bucket("user_message_before") = {} THEN <<>>
   ELSE RenderedBlock(Bucket("user_message_before")) \o <<NL, NL>>)
  \o u
  \o (IF Bucket("user_message_after") = {} THEN <<>>
      ELSE <<NL, NL>> \o RenderedBlock(Bucket("user_message_after")))

ComposedSystem(sp) ==
  sp \o (IF Bucket("system_prompt") = {} THEN <<>>
         ELSE <<NL, NL>> \o RenderedBlock(Bucket("system_prompt")))

\* C6: after the injection phase the user prompt is
\* [beforeBlock + "\n\n" +] U [+ "\n\n" + afterBlock] and the system prompt is
\* S [+ "\n\n" + systemBlock], U and S being the fields after the cleanup
\* phase (absent as empty), a piece present exactly when its bucket is not
\* empty, each block the rendered tags of the bucket in slot order joined by
\* blank lines; a field no bucket targets is left as it is.
C6_InjectionComposition ==
  outcome.at = "injected" =>
    /\ TextOf(req.prompt) = ComposedPrompt(TextOf(mid.prompt))
    /\ TextOf(req.system_prompt) = ComposedSystem(TextOf(mid.system_prompt))
    /\ (Bucket("user_message_before") = {} /\ Bucket("user_message_after") = {})
         => req.prompt = mid.prompt
    /\ Bucket("system_prompt") = {} => req.system_prompt = mid.system_prompt
    /\ (Bucket("user_message_before") # {} \/ Bucket("user_message_after") # {})
         => req.prompt.k = "str"
    /\ Bucket("system_prompt") # {} => req.system_prompt.k = "str"
    /\ req.contexts = mid.contexts

\* A cycle that injected two tags before the user prompt, one after it and
\* two into the system prompt, around texts that are not empty.
C6_Witness ==
  /\ outcome.at = "injected"
  /\ Cardinality(Bucket("user_message_before")) = 2
  /\ Cardinality(Bucket("user_message_after")) = 1
  /\ Cardinality(Bucket("system_prompt")) = 2
  /\ TextOf(mid.prompt) # <<>>
  /\ TextOf(mid.system_prompt) # <<>>
  /\ req.prompt # mid.prompt

\* C9: a failure at any step of handle_inject_tags reaches the host as no
\* error; the cycle stops at that step and what was done before it stays:
\* a failure in the cleanup leaves system prompt and user prompt cleaned of
\* the tag at hand, a failure in an injection leaves the whole cleanup, and
\* the injections made before it, in the request.
C9_FailOpen ==
  /\ ~outcome.raised
  /\ outcome.at = "failed_cleanup" =>
       /\ req.contexts = pre.contexts
       /\ req.system_prompt =
            CleanField(pre.system_prompt, tags[1], _build_cleanup_pattern(tags[1])).val
       /\ req.prompt =
            CleanField(pre.prompt, tags[1], _build_cleanup_pattern(tags[1])).val
  /\ outcome.at \in {"failed_before", "failed_after"} =>
       /\ req = CleanAll(Start(pre), tags).req
       /\ req.prompt = pre.prompt
  /\ outcome.at = "failed_system" =>
       /\ req.contexts = CleanAll(Start(pre), tags).req.contexts
       /\ req.system_prompt = pre.system_prompt
       /\ Bucket("user_message_before") \cup Bucket("user_message_after") # {}
            => TextOf(req.prompt) = ComposedPrompt(TextOf(mid.prompt))

\* A cycle that failed at the system prompt after it had cleaned the history
\* and injected into the user prompt.
C9_Witness ==
  /\ outcome.at = "failed_system"
  /\ req.contexts # pre.contexts
  /\ req.prompt # pre.prompt
  /\ req.prompt.k = "str"

\* --------------------------------------------------------------------------
\* Registry load on its own
\* --------------------------------------------------------------------------

\* What a slot of the configuration may hold.
SlotValues ==
  { \* off, with settings that would be valid
    [Slot(<<"a">>, <<"c">>, After) EXCEPT !.enabled = FALSE],
    \* not a dict
    [Missing EXCEPT !.isdict = FALSE, !.enabled = TRUE, !.tag_name = <<"a">>,
                    !.content = <<"c">>],
    \* valid
    Slot(<<"a">>, <<"c">>, Before),
    \* valid once the name and the position are stripped and the escaped
    \* newline of the content is replaced
    Slot(<<SP, "b", NL>>, <<"c", BS, "n", "d", SP>>, <<SP, "system_prompt">>),
    \* a name outside the pattern; no name
    Slot(<<"a", "<">>, <<"c">>, After),
    Slot(<<SP>>, <<"c">>, After),
    \* no content once normalised
    Slot(<<"x">>, <<BS, "n", SP>>, After),
    \* a position that is none of the three
    Slot(<<"y">>, <<"c">>, <<"bogus">>) }

\* What a key other than tag_1..tag_5 may hold.
ExtraValues == { Missing, Slot(<<"y">>, <<"z">>, After) }

LoadConfigs ==
  { cfg \in [ConfigKeys -> SlotValues \cup ExtraValues] :
      /\ \A key \in 1..MAX_TAGS : cfg[key] \in SlotValues
      /\ \A key \in ConfigKeys \ (1..MAX_TAGS) : cfg[key] \in ExtraValues }

LoadInit ==
  /\ config \in LoadConfigs
  /\ tags = <<>>
  /\ req = EmptyRequest
  /\ pre = EmptyRequest
  /\ mid = EmptyRequest
  /\ outcome = NoOutcome
  /\ phase = "created"
  /\ turn = 0
  /\ sel = 0
  /\ txt = <<>>
  /\ out1 = <<>>
  /\ out2 = <<>>

\* __init__: self._load_tags()
Construct ==
  /\ phase = "created"
  /\ tags' = _load_tags(config)
  /\ phase' = "idle"
  /\ UNCHANGED <<config, req, pre, mid, outcome, turn, sel, txt, out1, out2>>

LoadNext == Construct

SpecLoad == LoadInit /\ [][LoadNext]_vars

\* The settings of a slot as the load reads them.
NameOf(slot) == Strip(slot.tag_name)
ContentOf(slot) == Strip(Replace(slot.content, <<BS, "n">>, <<NL>>))
PositionOf(slot) ==
  IF \E pos \in Positions : Strip(slot.injection_position) = <<pos>>
  THEN Strip(slot.injection_position)[1] ELSE "user_message_after"

\* The slots C8 says are loaded.
Loadable ==
  { key \in 1..MAX_TAGS :
      /\ config[key].isdict
      /\ config[key].enabled
      /\ NameOf(config[key]) # <<>>
      /\ \A i \in 1..Len(NameOf(config[key])) : NameOf(config[key])[i] \in NameChars
      /\ ContentOf(config[key]) # <<>> }

\* C8: the load yields, in ascending slot order, exactly one definition for
\* each slot of tag_1..tag_5 that is enabled, has a name matching the pattern
\* and has content once normalised; an unrecognised position does not
\* exclude the slot and becomes user_message_after; other keys contribute
\* nothing, so there are never more than 5 tags.
C8_RegistryLoad ==
  phase = "idle" =>
    /\ Len(tags) = Cardinality(Loadable)
    /\ Len(tags) <= MAX_TAGS
    /\ {tags[i].slot : i \in 1..Len(tags)} = Loadable
    /\ \A i \in 1..Len(tags), j \in 1..Len(tags) : i < j => tags[i].slot < tags[j].slot
    /\ \A i \in 1..Len(tags) :
         /\ tags[i].tag_name = NameOf(config[tags[i].slot])
         /\ tags[i].content = ContentOf(config[tags[i].slot])
         /\ tags[i].position = PositionOf(config[tags[i].slot])
         /\ tags[i].header = <<"<">> \o tags[i].tag_name \o <<">">>
         /\ tags[i].footer = <<"<", "/">> \o tags[i].tag_name \o <<">">>

\* A load that kept a slot with an unrecognised position, dropped a slot
\* with a bad name, and ignored an enabled tag under another key.
C8_Witness ==
  /\ phase = "idle"
  /\ \E i \in 1..Len(tags) :
       /\ config[tags[i].slot].injection_position = <<"bogus">>
       /\ tags[i].position = "user_message_after"
  /\ \E key \in 1..MAX_TAGS : config[key].enabled /\ key \notin Loadable
  /\ \E key \in ConfigKeys \ (1..MAX_TAGS) : config[key].enabled
  /\ \E i \in 1..Len(tags) : tags[i].content = <<"c", NL, "d">>

\* --------------------------------------------------------------------------
\* One call of _remove_tags_from_context
\* --------------------------------------------------------------------------

\* Fragments a probed text is made of.
MaxFragments == 3

HeaderA == <<"<", "a", ">">>
FooterA == <<"<", "/", "a", ">">>

\* Delimiters of tag a, a piece of its header and the piece that completes
\* it, a whole block of tag b, and other text.
Fragments ==
  { HeaderA, FooterA, <<"<", "a">>, <<">">>, <<"x">>, <<NL>>,
    <<"<", "b", ">", "x", "<", "/", "b", ">">> }

\* The concatenations of at most n fragments.
RECURSIVE Texts(_)
Texts(n) ==
  IF n = 0 THEN {<<>>}
  ELSE Texts(n - 1) \cup {t \o f : t \in Texts(n - 1), f \in Fragments}

\* A text in which the removal of a block joins the pieces of a header.
SplicedText ==
  <<"<", "a">> \o HeaderA \o <<"x">> \o FooterA \o <<">", "y">> \o FooterA

ProbeTexts == Texts(MaxFragments) \cup {SplicedText}

\* Two tags, a in slot 1 and b in slot 2.
RemoveConfigs ==
  { Config(Slot(<<"a">>, <<"c">>, After), Slot(<<"b">>, <<"d">>, Before),
           Missing, Missing, Missing),
    Config(Slot(<<"a">>, <<"c", NL, NL, NL, "d">>, System), Slot(<<"b">>, <<"d">>, After),
           Missing, Missing, Missing) }

TextPart(pid, text) == [kind |-> "text", pid |-> pid, text |-> text]
OtherPart(pid, kind) == [kind |-> kind, pid |-> pid, text |-> <<>>]
ListMessage(id, parts) == [shape |-> "dict_list", id |-> id, text |-> <<>>, parts |-> parts]
TextMessage(shape, id, text) == [shape |-> shape, id |-> id, text |-> text, parts |-> <<>>]

\* Where the probed text t lies in the request, and what lies around it.
Scenario(n, t) ==
  IF n = 1 THEN [system_prompt |-> Str(t), prompt |-> Str(<<"h", "i">>),
                 contexts |-> [k |-> "list", v |-> <<>>]]
  ELSE IF n = 2 THEN [system_prompt |-> None, prompt |-> Str(t),
                      contexts |-> [k |-> "none", v |-> <<>>]]
  ELSE IF n = 3 THEN [system_prompt |-> Str(<<"s">>), prompt |-> Str(<<"h", "i">>),
                      contexts |-> [k |-> "list", v |->
                        << TextMessage("other", 1, <<>>),
                           TextMessage("str", 2, t),
                           TextMessage("dict_other", 3, <<>>) >>]]
  ELSE IF n = 4 THEN [system_prompt |-> Str(<<"s">>), prompt |-> Str(t),
                      contexts |-> [k |-> "list", v |->
                        << TextMessage("dict_str", 1, t),
                           TextMessage("str", 2, <<"h", "i">>) >>]]
  ELSE IF n = 5 THEN [system_prompt |-> Str(<<"s">>), prompt |-> None,
                      contexts |-> [k |-> "list", v |->
                        << ListMessage(1, <<TextPart(1, t), OtherPart(2, "nontext")>>),
                           ListMessage(2, <<OtherPart(1, "nontext"),
                                            OtherPart(2, "text_nonstr"),
                                            OtherPart(3, "nondict")>>) >>]]
  ELSE IF n = 6 THEN [system_prompt |-> Str(<<"s">>), prompt |-> Str(<<"h", "i">>),
                      contexts |-> [k |-> "list", v |->
                        << TextMessage("str", 1, t),
                           ListMessage(2, <<TextPart(1, <<"x">>), TextPart(2, t)>>),
                           ListMessage(3, <<TextPart(1, t)>>),
                           TextMessage("dict_str", 4, <<>>) >>]]
  ELSE [system_prompt |-> Str(<<"s">>), prompt |-> Str(<<"h", "i">>),
        contexts |-> [k |-> "list", v |->
          << ListMessage(1, <<>>),
             TextMessage("dict_str", 2, t) >>]]

Scenarios == 1..7

RemoveInit ==
  /\ config \in RemoveConfigs
  /\ tags = _load_tags(config)
  /\ sel \in 1..2
  /\ \E n \in Scenarios, t \in ProbeTexts : req = Scenario(n, t)
  /\ pre = EmptyRequest
  /\ mid = EmptyRequest
  /\ outcome = NoOutcome
  /\ phase = "built"
  /\ turn = 0
  /\ txt = <<>>
  /\ out1 = <<>>
  /\ out2 = <<>>

\* The tag cleaned and the other tag.
Cleaned == tags[sel]
Injected == tags[3 - sel]

\* The injection phase with the other tag alone.
InjectOther ==
  /\ phase = "built"
  /\ req' = InjectPhase(Start(req), <<Injected>>).req
  /\ phase' = "injected"
  /\ UNCHANGED <<config, tags, pre, mid, outcome, turn, sel, txt, out1, out2>>

\* _remove_tags_from_context(req, tag)
RemoveTag ==
  /\ phase \in {"built", "injected"}
  /\ req' = _remove_tags_from_context(req, Cleaned).req
  /\ pre' = req
  /\ turn' = _remove_tags_from_context(req, Cleaned).removed
  /\ phase' = IF phase = "built" THEN "removed" ELSE "removed_after_inject"
  /\ UNCHANGED <<config, tags, mid, outcome, sel, txt, out1, out2>>

RemoveNext == InjectOther \/ RemoveTag

SpecRemove == RemoveInit /\ [][RemoveNext]_vars

RemoveDone == phase \in {"removed", "removed_after_inject"}

\* The texts of a message and of a request.
TextsOfParts(parts) ==
  {parts[i].text : i \in {j \in 1..Len(parts) : parts[j].kind = "text"}}

TextsOfMessage(m) ==
  IF m.shape \in {"str", "dict_str"} THEN {m.text}
  ELSE IF m.shape = "dict_list" THEN TextsOfParts(m.parts)
  ELSE {}

TextsOfRequest(r) ==
  {TextOf(r.system_prompt), TextOf(r.prompt)}
  \cup UNION {TextsOfMessage(r.contexts.v[i]) : i \in 1..Len(r.contexts.v)}

\* C2: after one call for tag T no surviving text of the request (system
\* prompt, user prompt, plain-string entries, string content, text parts)
\* contains both T's header and T's footer.
C2_NoTextHoldsBoth ==
  RemoveDone => \A t \in TextsOfRequest(req) : ~HasBoth(t, Cleaned)

\* C4: after the other tag's block was injected into the user prompt or the
\* system prompt, the call for tag T leaves that block (header, content,
\* footer) intact in that field.
C4_NonInterference ==
  phase = "removed_after_inject" =>
    Contains(AnchorField(req, Injected.position),
             Injected.header \o <<NL>> \o Injected.content \o <<NL>> \o Injected.footer)

\* The text is blocks of tag t and whitespace, at least one block: after
\* leading whitespace comes nothing, or a header, the text up to the next
\* footer, and text of the same kind.
RECURSIVE BlocksOnly(_, _)
BlocksOnly(text, t) ==
  IF LStrip(text) = <<>> THEN TRUE
  ELSE /\ OccursAt(LStrip(text), t.header, 1)
       /\ Find(LStrip(text), t.footer, Len(t.header) + 1) # 0
       /\ BlocksOnly(SubSeq(LStrip(text),
                            Find(LStrip(text), t.footer, Len(t.header) + 1) + Len(t.footer),
                            Len(LStrip(text))), t)

AllBlocks(text, t) == Contains(text, t.header) /\ BlocksOnly(text, t)

\* The entries of the history after the call that stem from entry id.
Kept(id) == {i \in 1..Len(req.contexts.v) : req.contexts.v[i].id = id}

\* The parts with number pid of the entries after the call that stem from id.
KeptParts(id, pid) ==
  {<<i, j>> \in (1..Len(req.contexts.v)) \X (1..3) :
     /\ req.contexts.v[i].id = id
     /\ j <= Len(req.contexts.v[i].parts)
     /\ req.contexts.v[i].parts[j].pid = pid}

\* C7: after the call for tag T an entry whose whole text is blocks of T (and
\* whitespace) is absent from the history, as a plain string and as string
\* content; a text part of that kind is absent from its message; a message
\* all of whose parts were removed is absent; no entry or part that held
\* both delimiters is left with an empty text.
C7_EmptyAfterCleanDrop ==
  RemoveDone =>
    /\ \A i \in 1..Len(pre.contexts.v) :
         LET m == pre.contexts.v[i]
         IN /\ (m.shape \in {"str", "dict_str"} /\ AllBlocks(m.text, Cleaned))
                 => Kept(m.id) = {}
            /\ (m.shape \in {"str", "dict_str"} /\ HasBoth(m.text, Cleaned))
                 => \A k \in Kept(m.id) : req.contexts.v[k].text # <<>>
            /\ m.shape = "dict_list" =>
                 /\ \A j \in 1..Len(m.parts) :
                      (m.parts[j].kind = "text" /\ AllBlocks(m.parts[j].text, Cleaned))
                        => KeptParts(m.id, m.parts[j].pid) = {}
                 /\ \A j \in 1..Len(m.parts) :
                      (m.parts[j].kind = "text" /\ HasBoth(m.parts[j].text, Cleaned))
                        => \A ij \in KeptParts(m.id, m.parts[j].pid) :
                             req.contexts.v[ij[1]].parts[ij[2]].text # <<>>
                 /\ (m.parts # <<>> /\ \A j \in 1..Len(m.parts) :
                       m.parts[j].kind = "text" /\ AllBlocks(m.parts[j].text, Cleaned))
                      => Kept(m.id) = {}
    /\ \A k \in 1..Len(req.contexts.v) :
         req.contexts.v[k].shape = "dict_list" => req.contexts.v[k].parts # <<>>

\* A call that dropped a plain string, dropped one part of a message it
\* kept, and dropped a message whose only part it removed.
C7_Witness ==
  /\ RemoveDone
  /\ Len(pre.contexts.v) = 4
  /\ AllBlocks(pre.contexts.v[1].text, Cleaned)
  /\ Len(req.contexts.v) = 2
  /\ req.contexts.v[1].id = 2
  /\ Len(req.contexts.v[1].parts) = 1

\* The entries of msgs whose id is in ids, in order.
RECURSIVE WithIds(_, _)
WithIds(msgs, ids) ==
  IF msgs = <<>> THEN <<>>
  ELSE (IF Head(msgs).id \in ids THEN <<Head(msgs)>> ELSE <<>>)
       \o WithIds(Tail(msgs), ids)

\* The entries no text of which holds both delimiters of t.
Untouched(msgs, t) ==
  {msgs[i].id : i \in {j \in 1..Len(msgs) :
                         \A text \in TextsOfMessage(msgs[j]) : ~HasBoth(text, t)}}

\* C10: the call for tag T leaves every entry that holds no text with both
\* of T's delimiters as it is and in the same relative order (unrecognised
\* shapes, content that is neither string nor list, multipart messages with
\* no affected text part, parts that are not text), and leaves system prompt
\* and user prompt as they are when they do not hold both delimiters.
C10_Frame ==
  RemoveDone =>
    /\ WithIds(req.contexts.v, Untouched(pre.contexts.v, Cleaned))
         = WithIds(pre.contexts.v, Untouched(pre.contexts.v, Cleaned))
    /\ ~HasBoth(TextOf(pre.system_prompt), Cleaned)
         => req.system_prompt = pre.system_prompt
    /\ ~HasBoth(TextOf(pre.prompt), Cleaned) => req.prompt = pre.prompt

\* --------------------------------------------------------------------------
\* _clean_string on its own, and after an injection
\* --------------------------------------------------------------------------

\* One tag, a, at an anchor of the user prompt; in the last its content
\* holds its own footer.
CleanConfigs ==
  { Config(Slot(<<"a">>, <<"c">>, After), Missing, Missing, Missing, Missing),
    Config(Slot(<<"a">>, <<"c">>, Before), Missing, Missing, Missing, Missing),
    Config(Slot(<<"a">>, <<"x">> \o FooterA \o <<"y">>, After),
           Missing, Missing, Missing, Missing) }

CleanInit ==
  /\ config \in CleanConfigs
  /\ tags = _load_tags(config)
  /\ txt \in ProbeTexts
  /\ req = [EmptyRequest EXCEPT !.prompt = Str(txt)]
  /\ pre = EmptyRequest
  /\ mid = EmptyRequest
  /\ outcome = NoOutcome
  /\ phase = "input"
  /\ turn = 0
  /\ sel = 1
  /\ out1 = <<>>
  /\ out2 = <<>>

\* _clean_string(S, pat(T))
CleanOnce ==
  /\ phase = "input"
  /\ out1' = _clean_string(txt, _build_cleanup_pattern(tags[sel]))
  /\ phase' = "once"
  /\ UNCHANGED <<config, tags, req, pre, mid, outcome, turn, sel, txt, out2>>

\* _clean_string of that result
CleanTwice ==
  /\ phase = "once"
  /\ out2' = _clean_string(out1, _build_cleanup_pattern(tags[sel]))
  /\ phase' = "twice"
  /\ UNCHANGED <<config, tags, req, pre, mid, outcome, turn, sel, txt, out1>>

\* The cleanup phase of the hook on the user prompt txt: the prompt the
\* injection phase finds.
CleanPrompt ==
  /\ phase = "input"
  /\ req' = CleanAll(Start(req), tags).req
  /\ phase' = "cleaned"
  /\ UNCHANGED <<config, tags, pre, mid, outcome, turn, sel, txt, out1, out2>>

\* The injection phase with the one tag, on that prompt P.
InjectAlone ==
  /\ phase = "cleaned"
  /\ req' = InjectPhase(Start(req), tags).req
  /\ pre' = req
  /\ phase' = "injected"
  /\ UNCHANGED <<config, tags, mid, outcome, turn, sel, txt, out1, out2>>

\* _clean_string of the user prompt after the injection
CleanInjected ==
  /\ phase = "injected"
  /\ out1' = _clean_string(req.prompt.v, _build_cleanup_pattern(tags[sel]))
  /\ phase' = "roundtrip"
  /\ UNCHANGED <<config, tags, req, pre, mid, outcome, turn, sel, txt, out2>>

CleanNext == CleanOnce \/ CleanTwice \/ CleanPrompt \/ InjectAlone \/ CleanInjected

SpecClean == CleanInit /\ [][CleanNext]_vars

\* C3: for a text S that holds no other tag's delimiters, cleaning the
\* cleaned text gives the cleaned text.
C3_CleanIdempotent ==
  ( /\ phase = "twice"
    /\ ~Contains(txt, <<"<", "b", ">">>)
    /\ ~Contains(txt, <<"<", "/", "b", ">">>) )
  => out2 = out1

\* C5: injecting T alone into a user prompt P (pre.prompt, a prompt as the
\* cleanup phase leaves it) and cleaning the result with T's pattern gives P
\* with its outer whitespace trimmed and its runs of three or more newlines
\* collapsed to two.
C5_RoundTrip ==
  phase = "roundtrip" => out1 = Strip(CollapseNewlines(TextOf(pre.prompt)))

====
